---- MODULE Spec2Model ----
(***************************************************************************)
(* A model of tools/eslint/lib/util/safe-emitter.js: the factory that      *)
(* returns a frozen object { on, emit, eventNames } closing over one       *)
(* null-prototype object `listeners` (event name -> array of listeners).   *)
(*                                                                         *)
(* JavaScript runs the emitter on one thread.  A client call (on, emit,    *)
(* eventNames) is made only while no emit is in progress; while an emit is *)
(* in progress the only code that runs is the forEach loop of the          *)
(* innermost emit and the listener it is calling, which may itself call on *)
(* or emit (re-entrancy).  The call stack of emits in progress is          *)
(* therefore part of the state.                                            *)
(***************************************************************************)
EXTENDS Integers, Sequences, FiniteSets, TLC

(***************************************************************************)
(* Bounds of the model.                                                    *)
(***************************************************************************)
\* Total number of registrations (elements of all listener arrays).
MaxRegs == 3
\* Number of emit calls that may be nested before the engine's call stack is
\* exhausted (the engine then throws a RangeError).
MaxDepth == 2
\* Largest number of arguments a client passes to emit after the event name.
MaxArgs == 4

(***************************************************************************)
(* Inputs.                                                                 *)
(***************************************************************************)
\* The value of a missing argument, of a missing `this`, of a void return.
Undefined == "undefined"

\* Event names clients use.  "1" is a canonical array index, which
\* Object.keys lists before the other keys.
Names == {"x", "y", "1"}

\* The event names of the specification of key order: two more canonical
\* array indices, whose numeric order is not their order as strings.
KeyNames == Names \cup {"2", "10"}

\* Names that are canonical array indices, with their numeric value.
IndexNames == {"1", "2", "10"}

IndexValue(name) ==
    CASE name = "1" -> 1
      [] name = "2" -> 2
      [] name = "10" -> 10
      [] OTHER -> 0

\* The values clients register as listeners, by what they do when called:
\*   f, g   return normally
\*   boom   throws an Error
\*   notFn  is not callable (calling it throws a TypeError)
\*   reg    calls on(RegName, RegListener) and returns
\*   nest   calls emit(NestName, NestArgs...) and returns
Listeners == {"f", "g", "boom", "notFn", "reg", "nest"}

Plain == {"f", "g"}

RegName == "x"

RegListener == "g"

NestName == "x"

NestArgs == <<"n">>

\* The actual arguments of a client's emit call are a prefix of Pool.
Pool == <<"p", "q", "r", "s", "t", "u">>

ArgLists == {SubSeq(Pool, 1, n) : n \in 0..MaxArgs}

VARIABLES
    listeners,  \* the closure's `listeners` object: its own properties in
                \* creation order, each [key |-> name, list |-> array]
    stack,      \* emit calls in progress, outermost first: each frame is
                \* [eventName, a, b, c, len, k], the forEach loop of that
                \* call being about to visit index k of len
    log,        \* what the current (or last) client call invoked, in order
    call,       \* the current (or last) client call
    status,     \* "idle" (no call yet), "running", "returned", "threw"
    ret,        \* what the last client call returned or threw
    pre,        \* `listeners` as it was when the client call began
    registered, \* history: for each event name, the listeners every on()
                \* call so far was given for it, in call order
    peer        \* the object a second call of the factory created: the
                \* `listeners` of a second emitter

vars == <<listeners, stack, log, call, status, ret, pre, registered, peer>>

(***************************************************************************)
(* The `listeners` object.                                                 *)
(***************************************************************************)
\* const listeners = Object.create(null): no own and no inherited property.
NewListeners == << >>

\* eventName in listeners
In(eventName, obj) == \E i \in 1..Len(obj) : obj[i].key = eventName

\* The position of the own property eventName.
Slot(obj, eventName) == CHOOSE i \in 1..Len(obj) : obj[i].key = eventName

\* A variant of the lookup that ignores the name: the first array created.
GetFirst(obj, eventName) == obj[1].list

\* listeners[eventName]
Get(obj, eventName) == obj[Slot(obj, eventName)].list

\* Variants of push: one that adds at the front, one that skips a listener
\* the array already holds.
PushFront(array, listener) == <<listener>> \o array

PushUnique(array, listener) ==
    IF \E i \in 1..Len(array) : array[i] = listener
    THEN array
    ELSE Append(array, listener)

\* array.push(listener)
Push(array, listener) == Append(array, listener)

\* Variants of on: one that always assigns a fresh one-element array, one
\* that ignores a listener that is not a function, one that pushes the
\* listener to every array when the name is known.
onAll(obj, eventName, listener) ==
    IF In(eventName, obj)
    THEN [i \in 1..Len(obj) |-> [obj[i] EXCEPT !.list = Append(@, listener)]]
    ELSE Append(obj, [key |-> eventName, list |-> <<listener>>])

onReplace(obj, eventName, listener) ==
    IF In(eventName, obj)
    THEN [obj EXCEPT ![Slot(obj, eventName)].list = <<listener>>]
    ELSE Append(obj, [key |-> eventName, list |-> <<listener>>])

onValidating(obj, eventName, listener) ==
    IF listener = "notFn"
    THEN obj
    ELSE IF In(eventName, obj)
    THEN [obj EXCEPT ![Slot(obj, eventName)].list = Push(@, listener)]
    ELSE Append(obj, [key |-> eventName, list |-> <<listener>>])

\* on(eventName, listener), as a function of the object it updates.
on(obj, eventName, listener) ==
    IF In(eventName, obj)
    THEN [obj EXCEPT ![Slot(obj, eventName)].list = Push(@, listener)]
    ELSE Append(obj, [key |-> eventName, list |-> <<listener>>])

\* The number of registrations the object holds.
RECURSIVE Total(_)
Total(obj) == IF obj = << >> THEN 0 ELSE Len(Head(obj).list) + Total(Tail(obj))

(***************************************************************************)
(* Object.keys: array-index keys in ascending numeric order, then the      *)
(* string keys in creation order.                                          *)
(***************************************************************************)
IsIndexEntry(p) == p.key \in IndexNames

IsStringEntry(p) == p.key \notin IndexNames

RECURSIVE SortByIndex(_)
SortByIndex(entries) ==
    IF entries = << >> THEN << >>
    ELSE LET m == CHOOSE i \in 1..Len(entries) :
                    \A j \in 1..Len(entries) :
                        IndexValue(entries[i].key) <= IndexValue(entries[j].key)
             rest == [i \in 1..(Len(entries) - 1) |->
                        IF i < m THEN entries[i] ELSE entries[i + 1]]
         IN <<entries[m]>> \o SortByIndex(rest)

\* A variant of Object.keys that lists every key in creation order.
ObjectKeysCreationOrder(obj) == [i \in 1..Len(obj) |-> obj[i].key]

\* A variant of Object.keys that loses the array-index keys.
ObjectKeysStringsOnly(obj) ==
    LET ordered == SelectSeq(obj, IsStringEntry)
    IN [i \in 1..Len(ordered) |-> ordered[i].key]

ObjectKeys(obj) ==
    LET ordered == SortByIndex(SelectSeq(obj, IsIndexEntry))
                       \o SelectSeq(obj, IsStringEntry)
    IN [i \in 1..Len(ordered) |-> ordered[i].key]

(***************************************************************************)
(* emit's parameters and the call of one listener.                         *)
(***************************************************************************)
\* emit(eventName, a, b, c): the i-th formal parameter after eventName takes
\* the i-th actual argument, or undefined when the caller passed fewer.
Param(argv, i) == IF i <= Len(argv) THEN argv[i] ELSE Undefined

\* A variant of the call that passes two arguments: listener(a, b).
CallArgsTwo(a, b, c) == <<a, b>>

\* listener(a, b, c): the argument list of the call.
CallArgs(a, b, c) == <<a, b, c>>

\* A variant of the call that passes the emitter: listener.call(emitter, ...).
ThisArgEmitter == "emitter"

\* listener(a, b, c) is a plain call: it passes no this value.
ThisArg == Undefined

\* forEach reads the array's length once, before the first visit.
ForEachLen(array) == Len(array)

\* The frame of emit(eventName, a, b, c) entering forEach.
Frame(obj, eventName, argv) ==
    [eventName |-> eventName,
     a |-> Param(argv, 1), b |-> Param(argv, 2), c |-> Param(argv, 3),
     len |-> ForEachLen(Get(obj, eventName)), k |-> 1]

\* The record of one invocation, as kept in log.
Invocation(frame, listener, depth) ==
    [fn |-> listener, eventName |-> frame.eventName, k |-> frame.k,
     args |-> CallArgs(frame.a, frame.b, frame.c), this |-> ThisArg,
     depth |-> depth]

\* What a client call hands back: undefined, the array of eventNames, or
\* an error thrown while `depth` emits were in progress.
Void == [type |-> "undefined", items |-> << >>, depth |-> 0]

Thrown(name, depth) == [type |-> name, items |-> << >>, depth |-> depth]

Init ==
    /\ listeners = NewListeners
    /\ stack = << >>
    /\ log = << >>
    /\ call = [op |-> "none", eventName |-> Undefined, listener |-> Undefined,
               argv |-> << >>]
    /\ status = "idle"
    /\ ret = Void
    /\ pre = NewListeners
    /\ registered = [e \in KeyNames |-> << >>]
    /\ peer = NewListeners

\* No client call is in progress.
Quiet == stack = << >>

(***************************************************************************)
(* Client calls.                                                           *)
(***************************************************************************)
\* emitter.on(eventName, listener)
CallOn(eventName, listener) ==
    /\ Quiet
    /\ Total(listeners) < MaxRegs
    /\ listeners' = on(listeners, eventName, listener)
    /\ registered' = [registered EXCEPT ![eventName] = Append(@, listener)]
    /\ pre' = listeners
    /\ call' = [op |-> "on", eventName |-> eventName, listener |-> listener,
                argv |-> << >>]
    /\ log' = << >>
    /\ status' = "returned"
    /\ ret' = Void
    /\ UNCHANGED stack
    /\ UNCHANGED peer

\* A variant of eventNames that empties the object it has listed.
CallEventNamesDraining ==
    /\ stack = << >>
    /\ pre' = listeners
    /\ call' = [op |-> "eventNames", eventName |-> Undefined,
                listener |-> Undefined, argv |-> << >>]
    /\ log' = << >>
    /\ status' = "returned"
    /\ ret' = [type |-> "array", items |-> ObjectKeys(listeners), depth |-> 0]
    /\ listeners' = NewListeners
    /\ UNCHANGED <<stack, registered>>
    /\ UNCHANGED peer

\* emitter.eventNames()
CallEventNames ==
    /\ Quiet
    /\ pre' = listeners
    /\ call' = [op |-> "eventNames", eventName |-> Undefined,
                listener |-> Undefined, argv |-> << >>]
    /\ log' = << >>
    /\ status' = "returned"
    /\ ret' = [type |-> "array", items |-> ObjectKeys(listeners), depth |-> 0]
    /\ UNCHANGED <<listeners, stack, registered>>
    /\ UNCHANGED peer

\* A variant of emit that creates the array of a name it does not find:
\* (listeners[eventName] = listeners[eventName] || []).forEach(...).
CallEmitCreating(eventName, argv) ==
    /\ stack = << >>
    /\ pre' = listeners
    /\ call' = [op |-> "emit", eventName |-> eventName, listener |-> Undefined,
                argv |-> argv]
    /\ log' = << >>
    /\ ret' = Void
    /\ listeners' = IF In(eventName, listeners)
                    THEN listeners
                    ELSE Append(listeners, [key |-> eventName, list |-> << >>])
    /\ stack' = <<[eventName |-> eventName,
                   a |-> Param(argv, 1), b |-> Param(argv, 2), c |-> Param(argv, 3),
                   len |-> IF In(eventName, listeners)
                           THEN Len(Get(listeners, eventName))
                           ELSE 0,
                   k |-> 1]>>
    /\ status' = "running"
    /\ UNCHANGED registered
    /\ UNCHANGED peer

\* emitter.emit(eventName, ...argv): up to the first listener call.
CallEmit(eventName, argv) ==
    /\ Quiet
    /\ pre' = listeners
    /\ call' = [op |-> "emit", eventName |-> eventName, listener |-> Undefined,
                argv |-> argv]
    /\ log' = << >>
    /\ ret' = Void
    /\ IF In(eventName, listeners)
       THEN /\ stack' = <<Frame(listeners, eventName, argv)>>
            /\ status' = "running"
       ELSE /\ stack' = << >>
            /\ status' = "returned"
    /\ UNCHANGED <<listeners, registered>>
    /\ UNCHANGED peer

(***************************************************************************)
(* Steps of the emit in progress.                                          *)
(***************************************************************************)
Top == stack[Len(stack)]

\* A variant of the loop that reads the array's length before every visit.
VisitingLive ==
    stack # << >> /\ Top.k <= Len(Get(listeners, Top.eventName))

\* The forEach loop of the innermost emit has an index left to visit.
Visiting == stack # << >> /\ Top.k <= Top.len

\* The listener forEach is about to call.
Current == Get(listeners, Top.eventName)[Top.k]

\* The stack once the listener called by the innermost frame has returned.
Advance(s) == [s EXCEPT ![Len(s)].k = @ + 1]

\* An error nobody catches unwinds every emit in progress.
Throw(name) ==
    /\ stack' = << >>
    /\ status' = "threw"
    /\ ret' = Thrown(name, Len(stack))

\* The listener returns normally.
InvokePlain ==
    /\ Visiting
    /\ Current \in Plain
    /\ log' = Append(log, Invocation(Top, Current, Len(stack)))
    /\ stack' = Advance(stack)
    /\ UNCHANGED <<listeners, call, status, ret, pre, registered>>
    /\ UNCHANGED peer

\* A variant in which emit drops the listener that threw from its array.
InvokeBoomUnregister ==
    /\ Visiting
    /\ Current = "boom"
    /\ log' = Append(log, Invocation(Top, Current, Len(stack)))
    /\ Throw("Error")
    /\ listeners' =
          [listeners EXCEPT ![Slot(listeners, Top.eventName)].list =
              SubSeq(@, 1, Top.k - 1) \o SubSeq(@, Top.k + 1, Len(@))]
    /\ UNCHANGED <<call, pre, registered>>
    /\ UNCHANGED peer

\* A variant in which emit catches what a listener throws and goes on.
InvokeBoomCaught ==
    /\ stack # << >> /\ stack[Len(stack)].k <= stack[Len(stack)].len
    /\ Get(listeners, stack[Len(stack)].eventName)[stack[Len(stack)].k] = "boom"
    /\ log' = Append(log, Invocation(stack[Len(stack)], "boom", Len(stack)))
    /\ stack' = [stack EXCEPT ![Len(stack)].k = @ + 1]
    /\ UNCHANGED <<listeners, call, status, ret, pre, registered>>
    /\ UNCHANGED peer

\* The listener throws.
InvokeBoom ==
    /\ Visiting
    /\ Current = "boom"
    /\ log' = Append(log, Invocation(Top, Current, Len(stack)))
    /\ Throw("Error")
    /\ UNCHANGED <<listeners, call, pre, registered>>
    /\ UNCHANGED peer

\* The registered value is not callable: the call itself throws.
InvokeNotFn ==
    /\ Visiting
    /\ Current = "notFn"
    /\ Throw("TypeError")
    /\ UNCHANGED <<listeners, log, call, pre, registered>>
    /\ UNCHANGED peer

\* The listener registers another listener, then returns.
InvokeReg ==
    /\ Visiting
    /\ Current = "reg"
    /\ log' = Append(log, Invocation(Top, Current, Len(stack)))
    /\ IF Total(listeners) < MaxRegs
       THEN /\ listeners' = on(listeners, RegName, RegListener)
            /\ registered' = [registered EXCEPT ![RegName] = Append(@, RegListener)]
       ELSE UNCHANGED <<listeners, registered>>
    /\ stack' = Advance(stack)
    /\ UNCHANGED <<call, status, ret, pre>>
    /\ UNCHANGED peer

\* A variant in which the emit a listener calls is left to run after the
\* listener has returned (a deferred, not a synchronous, emit).
InvokeNestDetached ==
    /\ Visiting
    /\ Current = "nest"
    /\ log' = Append(log, Invocation(Top, Current, Len(stack)))
    /\ IF ~In(NestName, listeners)
       THEN /\ stack' = Advance(stack)
            /\ UNCHANGED <<status, ret>>
       ELSE IF Len(stack) >= MaxDepth
       THEN Throw("RangeError")
       ELSE /\ stack' = Append(Advance(stack),
                               Frame(listeners, NestName, NestArgs))
            /\ UNCHANGED <<status, ret>>
    /\ UNCHANGED <<listeners, call, pre, registered>>
    /\ UNCHANGED peer

\* The listener emits an event: it returns when that emit has returned.
InvokeNest ==
    /\ Visiting
    /\ Current = "nest"
    /\ log' = Append(log, Invocation(Top, Current, Len(stack)))
    /\ IF ~In(NestName, listeners)
       THEN /\ stack' = Advance(stack)
            /\ UNCHANGED <<status, ret>>
       ELSE IF Len(stack) >= MaxDepth
       THEN Throw("RangeError")
       ELSE /\ stack' = Append(stack, Frame(listeners, NestName, NestArgs))
            /\ UNCHANGED <<status, ret>>
    /\ UNCHANGED <<listeners, call, pre, registered>>
    /\ UNCHANGED peer

\* forEach has visited every index: the innermost emit returns, to the
\* listener that called it (which then returns) or to the client.
Return ==
    /\ stack # << >>
    /\ Top.k > Top.len
    /\ IF Len(stack) = 1
       THEN /\ stack' = << >>
            /\ status' = "returned"
            /\ ret' = Void
       ELSE /\ stack' = Advance(SubSeq(stack, 1, Len(stack) - 1))
            /\ UNCHANGED <<status, ret>>
    /\ UNCHANGED <<listeners, log, call, pre, registered>>
    /\ UNCHANGED peer

Next ==
    \/ \E e \in Names, l \in Listeners : CallOn(e, l)
    \/ CallEventNames
    \/ \E e \in Names, argv \in ArgLists : CallEmit(e, argv)
    \/ InvokePlain
    \/ InvokeBoom
    \/ InvokeNotFn
    \/ InvokeReg
    \/ InvokeNest
    \/ Return

Spec == Init /\ [][Next]_vars

(***************************************************************************)
(* Two emitters, made by two calls of the factory.  The methods of the     *)
(* first close over `listeners`, those of the second over the object their *)
(* own factory call created.                                               *)
(***************************************************************************)
\* A variant of the factory whose calls all use one object (a `listeners`
\* declared outside the factory function).
FactoryObjectShared(n) == 1

\* The object the n-th call of the factory creates: each call evaluates
\* Object.create(null) anew.
FactoryObject(n) == n

\* The object the methods of the second emitter close over.
PeerListeners ==
    IF FactoryObject(2) = FactoryObject(1) THEN listeners ELSE peer

\* What clients register on the two emitters in the specification of the pair.
PairNames == {"x", "y"}

PairListeners == {"f", "reg", "boom"}

PeerInputs == {"g"}

\* second.on(eventName, listener)
PeerOn(eventName, listener) ==
    /\ Quiet
    /\ Total(PeerListeners) < MaxRegs
    /\ IF FactoryObject(2) = FactoryObject(1)
       THEN /\ listeners' = on(listeners, eventName, listener)
            /\ UNCHANGED peer
       ELSE /\ peer' = on(peer, eventName, listener)
            /\ UNCHANGED listeners
    /\ UNCHANGED <<stack, log, call, status, ret, pre, registered>>

NextPair ==
    \/ \E e \in PairNames, l \in PairListeners : CallOn(e, l)
    \/ CallEventNames
    \/ \E e \in PairNames : CallEmit(e, << >>)
    \/ InvokePlain
    \/ InvokeBoom
    \/ InvokeReg
    \/ Return
    \/ \E e \in PairNames, l \in PeerInputs : PeerOn(e, l)

SpecPair == Init /\ [][NextPair]_vars

(***************************************************************************)
(* Registration and listing alone, over the wider set of names.            *)
(***************************************************************************)
NextKeys ==
    \/ \E e \in KeyNames : CallOn(e, "f")
    \/ CallEventNames

SpecKeys == Init /\ [][NextKeys]_vars

(***************************************************************************)
(* Vocabulary of the properties.                                           *)
(***************************************************************************)
\* The invocations the client's own emit call made (not those of an emit
\* a listener called).
IsTopCall(r) == r.depth = 1

TopCalls == SelectSeq(log, IsTopCall)

\* The listeners of a sequence of invocations.
Fns(calls) == [i \in 1..Len(calls) |-> calls[i].fn]

\* The array the object holds for a name, empty when it has no such key.
ListOf(obj, eventName) ==
    IF In(eventName, obj) THEN Get(obj, eventName) ELSE << >>

IsPrefix(s, t) == Len(s) <= Len(t) /\ s = SubSeq(t, 1, Len(s))

Count(x, seq) == Cardinality({i \in 1..Len(seq) : seq[i] = x})

\* The client's emit call has returned normally.
EmitReturned == call.op = "emit" /\ status = "returned"

\* The client's emit call ended with an error.
EmitThrew == call.op = "emit" /\ status = "threw"

(***************************************************************************)
(* C1.  After on(e, f1), ..., on(e, fn), interleaved or not with           *)
(* registrations for other names, the array kept for e is f1, ..., fn; and *)
(* an emit(e, ...) that returns normally has invoked exactly the listeners *)
(* registered for e when it was called, once per registration, at the      *)
(* indices 1..n in that order.                                             *)
(***************************************************************************)
C1_RegistrationOrder ==
    /\ \A e \in Names : ListOf(listeners, e) = registered[e]
    /\ EmitReturned =>
          /\ Fns(TopCalls) = ListOf(pre, call.eventName)
          /\ \A i \in 1..Len(TopCalls) :
                TopCalls[i].k = i /\ TopCalls[i].eventName = call.eventName

\* An emit of a name registered twice, with another name registered too,
\* has returned after invoking both listeners.
C1_Witness ==
    /\ EmitReturned
    /\ call.eventName = "x"
    /\ In("y", pre)
    /\ registered["x"] = <<"g", "f">>
    /\ Fns(TopCalls) = <<"g", "f">>

(***************************************************************************)
(* C2.  emit(e, ...) for a name e that has no key when the call is made    *)
(* returns undefined at once: no error, no listener invoked, and the       *)
(* object is what it was (no key is created for e).                        *)
(***************************************************************************)
C2_EmitUnregistered ==
    (call.op = "emit" /\ ~In(call.eventName, pre)) =>
        /\ status = "returned"
        /\ ret = Void
        /\ stack = << >>
        /\ log = << >>
        /\ listeners = pre
        /\ ~In(call.eventName, listeners)

\* An unregistered name was emitted while another name had listeners.
C2_Witness ==
    /\ call.op = "emit"
    /\ call.eventName = "y"
    /\ ~In("y", pre)
    /\ In("x", pre)
    /\ status = "returned"

(***************************************************************************)
(* C3.  A listener that throws ends the client's emit call with that       *)
(* error: it is the last invocation of the call, every emit in progress is *)
(* abandoned, and the call has invoked the listeners registered before the *)
(* failing one once each, in order, and none registered after it.          *)
(***************************************************************************)
C3_ThrowAborts ==
    /\ \A i \in 1..Len(log) :
          log[i].fn = "boom" =>
              /\ i = Len(log)
              /\ status = "threw"
              /\ ret.type = "Error"
              /\ stack = << >>
    /\ EmitThrew =>
          /\ Len(TopCalls) <= Len(ListOf(pre, call.eventName))
          /\ Fns(TopCalls) = SubSeq(ListOf(pre, call.eventName), 1, Len(TopCalls))
          /\ \A i \in 1..Len(TopCalls) : TopCalls[i].k = i

\* f1 threw with one listener registered before it and one after it.
C3_Witness ==
    /\ EmitThrew
    /\ ret.type = "Error"
    /\ ListOf(pre, call.eventName) = <<"f", "boom", "g">>
    /\ Fns(log) = <<"f", "boom">>

(***************************************************************************)
(* C4.  eventNames() returns exactly the names on() has been called with:  *)
(* each of them and no other, whatever the number of listeners of a name   *)
(* and whatever the order of the on() calls; and every key of the object   *)
(* holds a non-empty array.                                                *)
(***************************************************************************)
C4_EventNamesSet ==
    /\ \A i \in 1..Len(listeners) : listeners[i].list # << >>
    /\ call.op = "eventNames" =>
          /\ status = "returned"
          /\ ret.type = "array"
          /\ {ret.items[i] : i \in 1..Len(ret.items)}
                = {e \in Names : registered[e] # << >>}

\* eventNames() was called with "y" registered once, then "1" twice.
C4_Witness ==
    /\ call.op = "eventNames"
    /\ Len(listeners) = 2
    /\ listeners[1].key = "y"
    /\ Len(registered["y"]) = 1
    /\ Len(registered["1"]) = 2

(***************************************************************************)
(* C5.  Registrations are not deduplicated: the array of e holds a         *)
(* listener as many times as on(e, .) was called with it, an emit(e, ...)  *)
(* that returns has invoked it that many times, and eventNames() lists e   *)
(* once however many registrations e has.                                  *)
(***************************************************************************)
C5_Duplicates ==
    /\ \A e \in Names, l \in Listeners :
          Count(l, ListOf(listeners, e)) = Count(l, registered[e])
    /\ EmitReturned =>
          \A l \in Listeners :
              Count(l, Fns(TopCalls)) = Count(l, ListOf(pre, call.eventName))
    /\ call.op = "eventNames" =>
          \A e \in Names :
              Count(e, ret.items) = IF Len(registered[e]) >= 1 THEN 1 ELSE 0

\* The same listener was registered three times for a name, and an emit of
\* that name invoked it three times.
C5_Witness ==
    /\ EmitReturned
    /\ registered[call.eventName] = <<"f", "f", "f">>
    /\ Fns(log) = <<"f", "f", "f">>

(***************************************************************************)
(* C6.  Every invocation passes exactly three arguments.  Those of the     *)
(* client's emit(e, a1, a2, ...) are a1, a2, a3, with undefined in the     *)
(* place of an argument the client did not pass and nothing of what it     *)
(* passed after the third; those of an emit called by a listener are that  *)
(* call's arguments, filled the same way.  All invocations of one emit     *)
(* call pass the same three values.                                        *)
(***************************************************************************)
C6_ThreeArguments ==
    \A i \in 1..Len(log) :
        /\ Len(log[i].args) = 3
        /\ \A j \in 1..3 :
              log[i].args[j] =
                  IF log[i].depth = 1
                  THEN (IF j <= Len(call.argv) THEN call.argv[j] ELSE Undefined)
                  ELSE (IF j <= Len(NestArgs) THEN NestArgs[j] ELSE Undefined)

\* A client's emit with four arguments invoked a listener whose own emit,
\* with one argument, invoked another.
C6_Witness ==
    /\ Len(call.argv) = 4
    /\ \E i, j \in 1..Len(log) : log[i].depth = 1 /\ log[j].depth = 2

(***************************************************************************)
(* C7.  Every invocation passes undefined as its this value: never the     *)
(* emitter, the array of listeners or the listeners object.                *)
(***************************************************************************)
C7_NoReceiver ==
    \A i \in 1..Len(log) : log[i].this = Undefined

\* An emit has invoked listeners of two names, one inside the other.
C7_Witness ==
    /\ status = "returned"
    /\ \E i, j \in 1..Len(log) : log[i].eventName # log[j].eventName

(***************************************************************************)
(* C8.  No step removes a key of the listeners object, moves it, or        *)
(* removes or reorders a listener: each array after the step has the array *)
(* before it as a prefix.  This holds of the steps of an emit that ends    *)
(* with an error too.                                                      *)
(***************************************************************************)
Grows(old, new) ==
    /\ Len(old) <= Len(new)
    /\ \A i \in 1..Len(old) :
          /\ new[i].key = old[i].key
          /\ IsPrefix(old[i].list, new[i].list)

C8_OnlyGrows == [][Grows(listeners, listeners')]_vars

\* An emit that registered a listener on its way ended with an error.
C8_Witness ==
    /\ EmitThrew
    /\ listeners # pre
    /\ Len(listeners) = 2

(***************************************************************************)
(* C9.  eventNames() changes nothing: when it returns, the listeners       *)
(* object is the one it was called on, no emit is in progress and nothing  *)
(* was invoked.                                                            *)
(***************************************************************************)
C9_EventNamesPure ==
    call.op = "eventNames" =>
        /\ listeners = pre
        /\ stack = << >>
        /\ log = << >>

\* eventNames() was called on an object with three keys.
C9_Witness ==
    /\ call.op = "eventNames"
    /\ Len(listeners) = 3
    /\ Len(ret.items) = 3

(***************************************************************************)
(* C10.  on(e, x) does not look at x: it returns undefined with x the last *)
(* element of e's array and e among the names eventNames() lists.  A value *)
(* that is not callable fails when emit reaches it: the client's emit ends *)
(* with a TypeError once it has invoked the listeners registered before x, *)
(* x itself is never recorded as invoked, nothing registered after x is    *)
(* invoked, and no emit of e returns normally while x is registered.       *)
(***************************************************************************)
C10_NonCallable ==
    /\ call.op = "on" =>
          /\ status = "returned"
          /\ ret = Void
          /\ In(call.eventName, listeners)
          /\ LET list == Get(listeners, call.eventName)
             IN list[Len(list)] = call.listener
          /\ \E i \in 1..Len(ObjectKeys(listeners)) :
                ObjectKeys(listeners)[i] = call.eventName
    /\ \A i \in 1..Len(log) : log[i].fn # "notFn"
    /\ (EmitThrew /\ ret.type = "TypeError" /\ ret.depth = 1) =>
          LET list == ListOf(pre, call.eventName)
              n == Len(TopCalls)
          IN /\ n < Len(list)
             /\ list[n + 1] = "notFn"
             /\ Fns(TopCalls) = SubSeq(list, 1, n)
    /\ EmitReturned =>
          Count("notFn", ListOf(pre, call.eventName)) = 0

\* An emit reached a non-callable registered between two listeners.
C10_Witness ==
    /\ EmitThrew
    /\ ret.type = "TypeError"
    /\ ListOf(pre, call.eventName) = <<"f", "notFn", "g">>
    /\ Fns(log) = <<"f">>

(***************************************************************************)
(* C11.  A listener that calls on(e, g) while e is being emitted appends g *)
(* to e's array, but the emit in progress visits only the indices the      *)
(* array had when that emit began: g is not invoked by it.  An emit called *)
(* later invokes g too, after everything registered before it.             *)
(***************************************************************************)
Min(a, b) == IF a <= b THEN a ELSE b

\* The registrations the listeners invoked so far have made: a listener
\* registers only while the arrays hold fewer than MaxRegs elements.
MadeByListeners == Min(Count("reg", Fns(log)), MaxRegs - Total(pre))

C11_SnapshotLength ==
    call.op = "emit" =>
        /\ \A i \in 1..Len(log) :
              log[i].depth = 1 => log[i].k <= Len(ListOf(pre, call.eventName))
        /\ \A d \in 1..Len(stack) :
              /\ stack[d].k <= stack[d].len + 1
              /\ stack[d].len <= Len(Get(listeners, stack[d].eventName))
        /\ ListOf(listeners, RegName)
              = ListOf(pre, RegName) \o [i \in 1..MadeByListeners |-> RegListener]
        /\ \A e \in Names \ {RegName} : ListOf(listeners, e) = ListOf(pre, e)
        /\ status = "returned" =>
              Fns(TopCalls)
                  = SubSeq(registered[call.eventName], 1,
                           Len(ListOf(pre, call.eventName)))

\* An emit of x whose first listener registered g for x has returned: it
\* invoked the two listeners it began with, and x's array now ends with g.
C11_Witness ==
    /\ EmitReturned
    /\ call.eventName = RegName
    /\ Fns(log) = <<"reg", "f">>
    /\ ListOf(listeners, RegName) = <<"reg", "f", RegListener>>

(***************************************************************************)
(* C12.  emit is synchronous and nests.  While an emit is in progress the  *)
(* client has not been returned to; only the innermost emit invokes        *)
(* listeners; every emit below it is waiting inside the listener that      *)
(* called the one above it, and its loop does not move.  An emit returns   *)
(* only when its loop has visited every index, and only then does the      *)
(* listener that called it return and the loop below go on to its next     *)
(* listener.                                                               *)
(***************************************************************************)
\* Every emit below the innermost one is inside a call of the listener that
\* emitted the next one.
Waiting ==
    \A d \in 1..(Len(stack) - 1) :
        /\ stack[d].k <= stack[d].len
        /\ Get(listeners, stack[d].eventName)[stack[d].k] = "nest"
        /\ stack[d + 1].eventName = NestName

\* The frames below the innermost one, as they are.
Below(s) == SubSeq(s, 1, Len(s) - 1)

SyncStep ==
    /\ (status' = "running") <=> (stack' # << >>)
    /\ Waiting'
    /\ stack # << >> =>
          \/ log' = log
          \/ /\ Len(log') = Len(log) + 1
             /\ SubSeq(log', 1, Len(log)) = log
             /\ log'[Len(log')].depth = Len(stack)
             /\ log'[Len(log')].k = Top.k
             /\ log'[Len(log')].eventName = Top.eventName
    /\ (stack # << >> /\ status' # "threw") =>
          \/ /\ Len(stack') = Len(stack) + 1
             /\ Below(stack') = stack
             /\ stack'[Len(stack')].k = 1
             /\ log' # log
             /\ log'[Len(log')].fn = "nest"
          \/ /\ Len(stack') = Len(stack)
             /\ Below(stack') = Below(stack)
             /\ stack'[Len(stack')] = [Top EXCEPT !.k = @ + 1]
             /\ log' # log
          \/ /\ Len(stack') = Len(stack) - 1
             /\ Top.k > Top.len
             /\ log' = log
             /\ stack' # << >> =>
                   /\ Below(stack') = Below(Below(stack))
                   /\ stack'[Len(stack')]
                         = [stack[Len(stack) - 1] EXCEPT !.k = @ + 1]
    /\ (stack # << >> /\ status' = "returned") =>
          Len(stack) = 1 /\ Top.k > Top.len

C12_SynchronousNesting == [][SyncStep]_vars

\* An emit of y has returned whose first listener emitted x: x's listener
\* was invoked before y's second listener.
C12_Witness ==
    /\ EmitReturned
    /\ call.eventName = "y"
    /\ Fns(log) = <<"nest", "f", "g">>
    /\ log[2].depth = 2
    /\ log[3].depth = 1

(***************************************************************************)
(* C13.  An emit call invokes only what is registered under the very name  *)
(* it was called with: each invocation of the client's emit(e, ...) is of  *)
(* the listener registered at that index for e, and each invocation of an  *)
(* emit a listener called is of the listener registered at that index for  *)
(* the name that listener emitted.  Nothing registered only under another  *)
(* name is invoked by it.  Unless an invoked listener calls on(), the      *)
(* listeners object during and after the emit is what it was before.       *)
(***************************************************************************)
C13_ExactName ==
    /\ \A i \in 1..Len(log) :
          LET name == IF log[i].depth = 1 THEN call.eventName ELSE NestName
          IN /\ log[i].eventName = name
             /\ log[i].k <= Len(registered[name])
             /\ log[i].fn = registered[name][log[i].k]
    /\ (call.op = "emit" /\ Count("reg", Fns(log)) = 0) => listeners = pre

\* An emit of y invoked y's one listener and neither of x's.
C13_Witness ==
    /\ EmitReturned
    /\ call.eventName = "y"
    /\ registered["x"] = <<"f", "boom">>
    /\ registered["y"] = <<"g">>
    /\ Fns(log) = <<"g">>

(***************************************************************************)
(* C14.  on(e, f) changes the array of e and nothing else: f becomes its   *)
(* last element after the elements it had, or its only element, under a    *)
(* key created after the existing ones, when e had no key.  The array of   *)
(* every other name, the set of the other keys and their order are what    *)
(* they were, and no listener is invoked.                                  *)
(***************************************************************************)
C14_OnFrame ==
    call.op = "on" =>
        /\ ListOf(listeners, call.eventName)
              = ListOf(pre, call.eventName) \o <<call.listener>>
        /\ \A e \in Names \ {call.eventName} :
              /\ In(e, listeners) <=> In(e, pre)
              /\ ListOf(listeners, e) = ListOf(pre, e)
        /\ \A i \in 1..Len(pre) : listeners[i].key = pre[i].key
        /\ Len(listeners) = IF In(call.eventName, pre)
                            THEN Len(pre)
                            ELSE Len(pre) + 1
        /\ ~In(call.eventName, pre) =>
              listeners[Len(listeners)]
                  = [key |-> call.eventName, list |-> <<call.listener>>]
        /\ log = << >>
        /\ stack = << >>

\* on("x", g) was called with one listener under x and one under y.
C14_Witness ==
    /\ call.op = "on"
    /\ call.eventName = "x"
    /\ call.listener = "g"
    /\ ListOf(pre, "x") = <<"f">>
    /\ ListOf(pre, "y") = <<"boom">>

(***************************************************************************)
(* C15.  As claimed: eventNames() lists each registered name once, in the  *)
(* order in which the names were first registered.                         *)
(***************************************************************************)
\* The keys in the order on() created them.
CreationOrder == [i \in 1..Len(listeners) |-> listeners[i].key]

C15_FirstRegistrationOrder ==
    call.op = "eventNames" =>
        /\ Len(ret.items) = Cardinality({ret.items[i] : i \in 1..Len(ret.items)})
        /\ ret.items = CreationOrder

(***************************************************************************)
(* C15, amended.  eventNames() lists each registered name once, in the     *)
(* key order of Object.keys: the names that are canonical array indices    *)
(* come first, in ascending numeric order, and the other names follow in   *)
(* the order in which they were first registered.                          *)
(***************************************************************************)
\* The position at which the name was first registered, among all names.
FirstRegistered(name) ==
    CHOOSE i \in 1..Len(listeners) : listeners[i].key = name

C15_KeyOrder ==
    call.op = "eventNames" =>
        /\ Len(ret.items) = Cardinality({ret.items[i] : i \in 1..Len(ret.items)})
        /\ {ret.items[i] : i \in 1..Len(ret.items)}
              = {e \in KeyNames : registered[e] # << >>}
        /\ \A i, j \in 1..Len(ret.items) :
              i < j =>
                  LET a == ret.items[i]
                      b == ret.items[j]
                  IN IF b \in IndexNames
                     THEN a \in IndexNames /\ IndexValue(a) < IndexValue(b)
                     ELSE a \in IndexNames
                          \/ FirstRegistered(a) < FirstRegistered(b)

\* The names were first registered in the order 10, x, 2.
C15_Witness ==
    /\ call.op = "eventNames"
    /\ CreationOrder = <<"10", "x", "2">>
    /\ ret.items = <<"2", "10", "x">>

(***************************************************************************)
(* C16.  As claimed: an emit that ends with an error leaves the listeners  *)
(* object as it was when the emit was called, and every emit, the one      *)
(* after an abort included, invokes from the first registered listener on, *)
(* in registration order.                                                  *)
(***************************************************************************)
\* The client's emit invokes the listeners of its name from the first on.
FromTheFirst ==
    call.op = "emit" =>
        \A i \in 1..Len(TopCalls) :
            /\ TopCalls[i].k = i
            /\ TopCalls[i].fn = registered[call.eventName][i]

C16_AbortLeavesRegistry ==
    /\ EmitThrew => listeners = pre
    /\ FromTheFirst

(***************************************************************************)
(* C16, amended.  An emit that ends with an error removes and reorders     *)
(* nothing: the listeners object is as it was when the emit was called,    *)
(* but for what the listeners invoked before the error registered by       *)
(* calling on() themselves.  The listener that threw and those after it    *)
(* stay registered.  An emit called next changes nothing on entry and      *)
(* starts at the first index of the whole array of its name; every emit    *)
(* invokes in registration order.                                          *)
(***************************************************************************)
AbortStep ==
    /\ status' = "threw" =>
          /\ stack' = << >>
          /\ Grows(pre', listeners')
          /\ Count("reg", Fns(log')) = 0 => listeners' = pre'
          /\ \A e \in Names : ListOf(listeners', e) = registered'[e]
    /\ (status = "threw" /\ call'.op = "emit") =>
          /\ listeners' = listeners
          /\ log' = << >>
          /\ In(call'.eventName, listeners) =>
                /\ Len(stack') = 1
                /\ stack'[1].eventName = call'.eventName
                /\ stack'[1].k = 1
                /\ stack'[1].len = Len(Get(listeners, call'.eventName))
    /\ FromTheFirst'

C16_AbortKeepsRegistrations == [][AbortStep]_vars

\* An emit of y ended with an error after its first listener had registered
\* a listener for x: both listeners of y are still registered.
C16_Witness ==
    /\ EmitThrew
    /\ call.eventName = "y"
    /\ Fns(log) = <<"reg", "boom">>
    /\ ListOf(pre, "x") = << >>
    /\ ListOf(listeners, "x") = <<RegListener>>
    /\ ListOf(listeners, "y") = <<"reg", "boom">>

(***************************************************************************)
(* C17.  Two emitters made by two calls of the factory share no state.  A  *)
(* call of on of the second emitter leaves the first as it was: its        *)
(* object, hence what its eventNames() returns and what its emit visits,   *)
(* and its emit in progress.  Every step of a call of on, emit or          *)
(* eventNames of the first emitter leaves what the second's eventNames()   *)
(* returns and the array its emit visits for each name as they were.       *)
(***************************************************************************)
\* What the second emitter shows: the result of its eventNames() and, for
\* each name, the listeners its emit would invoke.
PeerView ==
    [names |-> ObjectKeys(PeerListeners),
     lists |-> [e \in Names |-> ListOf(PeerListeners, e)]]

\* The same of the first emitter.
OwnView ==
    [names |-> ObjectKeys(listeners),
     lists |-> [e \in Names |-> ListOf(listeners, e)]]

PeerStep == \E e \in Names, l \in Listeners : PeerOn(e, l)

IsolatedStep ==
    IF PeerStep
    THEN OwnView' = OwnView /\ stack' = stack /\ log' = log
    ELSE PeerView' = PeerView

C17_NoSharedState == [][IsolatedStep]_vars

\* Each emitter holds its own registrations for x, and an emit of x on the
\* first has invoked the first's listener alone.
C17_Witness ==
    /\ EmitReturned
    /\ call.eventName = "x"
    /\ Fns(log) = <<"f">>
    /\ OwnView.lists["x"] = <<"f">>
    /\ PeerView.lists["x"] = <<"g", "g">>
    /\ PeerView.names = <<"x">>
    /\ OwnView.names = <<"x", "y">>

====
